---- MODULE Spec2Model ----
(***************************************************************************)
(* The reminder timer machinery of src/main/cogs/reminder.py (class         *)
(* Reminder): the `reminders` table, the dispatch_timers task with its      *)
(* await points, the short in-memory timers, and the commands that create,  *)
(* delete and clear timers.                                                 *)
(*                                                                          *)
(* Time is in seconds.  The clock is a discrete-event clock: it stands      *)
(* still while a task is runnable and otherwise jumps to the next moment    *)
(* at which something can happen (a pending sleep ends, a stored timer      *)
(* expires).  Commands arrive at any moment the clock visits.               *)
(***************************************************************************)
EXTENDS Integers, Sequences, FiniteSets

\* ---------------------------------------------------------------- bounds
\* Calls of create_timer in one run.
MaxTimers == 2
\* Storage errors raised inside the dispatch loop in one run.
MaxErrors == 1
\* Slots for dispatch_timers tasks that exist at the same time.
MaxTasks == 2

\* Windows of the limiter fed on its own that the timestamps of its events span.
MaxWindows == 2
\* Hits a bucket is fed beyond its rate.
MaxOver == 2
\* Tokens of one weighted update.
MaxTokens == 7

\* Calls of is_spamming in one run.
MaxMessages == 1
\* Calls of is_fast_join in one run.
MaxJoins == 2
\* Gaps between the events of the spam checker in one run.
MaxPasses == 2

\* ------------------------------------------------------ program constants
\* create_timer: `if delta <= 120`
ShortThreshold == 120
\* dispatch_timers: wait_for_active_timers(days=40); create_timer: 86400 * 40
HorizonDays == 40
\* create_timer: `86400 * 40`, seconds of one day
Day == 86400

\* ----------------------------------------------------------------- inputs
\* when - created_at of the timers the commands ask for: the short path at
\* its boundary, the stored path just above it, the horizon of the dispatch
\* loop at its boundary and just beyond it.
Deltas == {ShortThreshold, ShortThreshold + 1, HorizonDays * Day, HorizonDays * Day + 1}
\* Seconds between ctx.message.created_at and the moment the command runs.
Lags == {0, 5}
\* when - created_at of a request for a time in the past.
PastDeltas == {-1}
\* ctx.author.id.  Authors are interchangeable: a timer is created by an
\* author who has created one already or by the next new one.
Authors == {1, 2}

\* Timer.id of Timer.temp (None), and the absent Timer (None).
NoId == 0
\* The last step ran no command.
NoReply == "none"
NoTimer == [id |-> -1, expires |-> 0, created_at |-> 0, author |-> 0]

VARIABLES
    clock,          \* datetime.utcnow(), seconds
    reminders,      \* rows of the `reminders` table
    nextId,         \* the table's serial id
    have_data,      \* Reminder._have_data (asyncio.Event)
    current_timer,  \* Reminder._current_timer
    task,           \* Reminder._task: the slot of the task it refers to
    tasks,          \* the dispatch_timers tasks: position, local `timer`, end of sleep
    shortTasks,     \* pending short_timer_optimization tasks
    stopped,        \* cog_unload has run
    errors,         \* history: the storage errors raised inside the loop, in order
    timers,         \* history: every Timer create_timer returned, in order, with the
                    \* clock of the call and the timer the loop was sleeping on
    fired,          \* history: every <event>_timer_complete dispatched, in order, and
                    \* whether the listener the loop's dispatch started raised
    cancelled,      \* history: timers cancelled (reminder_delete, reminder_clear) before they fired
    reply           \* what the command run by the last step answered (ctx.send or the
                    \* error raised to the caller); NoReply when the last step ran no command

vars == <<clock, reminders, nextId, have_data, current_timer, task, tasks,
          shortTasks, stopped, errors, timers, fired, cancelled, reply>>

\* The state of the spam limiters of src/main/cogs/mod.py, which the
\* reminder machinery never touches.
VARIABLES
    limiter,        \* the (rate, per) of the one limiter fed on its own
    bucket,         \* its bucket
    ltime,          \* the timestamp of its events, seconds
    phase,          \* history: "fresh", "first" (every event so far in the window the
                    \* first one opened), "rested" (a wait of at least per seconds came
                    \* right after exactly rate events in one window), "other"
    first,          \* history: the timestamp of the first event
    count,          \* history: unit events in the current phase
    tokens,         \* the tokens of the last update of the bucket
    tripped         \* the result of the last update of the bucket

limiterVars == <<limiter, bucket, ltime, phase, first, count, tokens, tripped>>

\* The SpamChecker of one guild.
VARIABLES
    stime,              \* the moment of the event being handled, seconds
    by_content,         \* buckets of by_content, by (channel, content)
    by_user,            \* buckets of by_user, by author
    new_user,           \* buckets of new_user, by channel
    hit_and_run,        \* buckets of hit_and_run, by channel
    by_mentions_map,    \* buckets of _by_mentions, by author
    by_mentions_rate,   \* _by_mentions_rate, NoRate for None
    last_join,          \* last_join, NoJoin for None
    fast_joiners,       \* fast_joiners: member id -> the moment it was recorded
    spam,               \* where the last is_spamming returned
    fast,               \* what the last is_fast_join returned
    last,               \* author, channel, content, mentions and guild of the last message,
                        \* the mention_count of its guild and the author's entry in
                        \* fast_joiners as the message arrived, or
                        \* the last member to join and the seconds since the join before
    sent,               \* calls of is_spamming so far
    joins,              \* calls of is_fast_join so far
    passes,             \* gaps between events so far
    burst,              \* the messages the run opens with, still to come
    other_guild,        \* the SpamChecker of another guild in Mod._spam_check
    elsewhere           \* calls of is_spamming for the other guild so far

spamVars == <<stime, by_content, by_user, new_user, hit_and_run, by_mentions_map,
              by_mentions_rate, last_join, fast_joiners, spam, fast, last, sent, joins,
              passes, burst, other_guild, elsewhere>>

modVars == <<limiterVars, spamVars>>

TaskIds == 1..MaxTasks
NoTask == [pc |-> "none", timer |-> NoTimer, wake |-> 0]
NewTask == [pc |-> "query1", timer |-> NoTimer, wake |-> 0]

\* A task that has not ended (asyncio: not done and not cancelled).
AlivePcs == {"query1", "wait", "query2", "release", "sleep", "delete", "dispatch"}
Alive(ts, t) == ts[t].pc \in AlivePcs
AliveTasks(ts) == {t \in TaskIds : Alive(ts, t)}

\* ------------------------------------------------------------- helpers
Min(S) == CHOOSE x \in S : \A y \in S : x <= y

\* SQL CURRENT_DATE: midnight of the current day.
CurrentDate(now) == (now \div Day) * Day

\* get_active_timer: SELECT * FROM reminders WHERE expires < CURRENT_DATE + days
\* ORDER BY expires LIMIT 1.  The rows the query may return (ties are the
\* database's choice); NoTimer when there is none.
VisibleRows(rows, now, days) ==
    {r \in rows : r.expires < CurrentDate(now) + days * Day}

ActiveTimers(rows, now, days) ==
    LET vis == VisibleRows(rows, now, days)
    IN  IF vis = {} THEN {NoTimer}
        ELSE {r \in vis : \A q \in vis : r.expires <= q.expires}

\* The history entry of a stored timer.
KeyOfId(id) == CHOOSE k \in 1..Len(timers) : timers[k].id = id

FiredKeys == {fired[i].key : i \in 1..Len(fired)}

\* Task.cancel(): a task that has not ended ends at the await it is in; a
\* task that has ended is left as it is.
Cancel(ts, t) ==
    IF Alive(ts, t) THEN [ts EXCEPT ![t] = [NoTask EXCEPT !.pc = "cancelled"]] ELSE ts

\* A slot is kept only for a task that has not ended or that _task refers to.
Collect(ts, cur) ==
    [t \in TaskIds |-> IF Alive(ts, t) \/ t = cur THEN ts[t] ELSE NoTask]

FreeSlots(ts) == {t \in TaskIds : ts[t].pc \in {"none", "cancelled", "failed", "done"}}

\* self._task.cancel(); self._task = self.bot.loop.create_task(self.dispatch_timers())
\* The tasks and the slot _task refers to afterwards.
RestartNoCancel(ts, cur) ==
    LET new == Min(FreeSlots(ts))
    IN  [tasks |-> [ts EXCEPT ![new] = NewTask], task |-> new]

RestartTasks(ts, cur) ==
    LET rest == Cancel(ts, cur)
        new == Min(FreeSlots(rest))
    IN  [tasks |-> Collect([rest EXCEPT ![new] = NewTask], new), task |-> new]

CanRestart(ts, cur) == FreeSlots(Cancel(ts, cur)) # {}

\* -------------------------------------------------------------- Init
\* Reminder.__init__: the event is clear, there is no current timer and the
\* dispatch task has been created and has not run yet.
ReminderInit ==
    /\ clock = 0
    /\ reminders = {}
    /\ nextId = 1
    /\ have_data = FALSE
    /\ current_timer = NoTimer
    /\ task = 1
    /\ tasks = [t \in TaskIds |-> IF t = 1 THEN NewTask ELSE NoTask]
    /\ shortTasks = {}
    /\ stopped = FALSE
    /\ errors = <<>>
    /\ timers = <<>>
    /\ fired = <<>>
    /\ cancelled = {}
    /\ reply = NoReply

\* No limiter is fed on its own.
NoLimiter == [rate |-> 0, per |-> 0]
\* A key no event has touched yet has no bucket.
NoBucket == [hits |-> 0, windowStart |-> -1]

LimiterIdle ==
    /\ limiter = NoLimiter
    /\ bucket = NoBucket
    /\ ltime = 0
    /\ phase = "fresh"
    /\ first = 0
    /\ count = 0
    /\ tokens = 0
    /\ tripped = FALSE

\* is_fast_join: `<= 2.0`
FastJoinGap == 2
\* SpamChecker.__init__: ExpiringCache(seconds=1800.0)
FastJoinTTL == 1800
\* is_new: timedelta(days=7), timedelta(days=90)
NewJoinedDays == 7
NewCreatedDays == 90

\* The members that write and join; the channels and contents of their
\* messages.
Users == {1, 2}
Channels == {1, 2}
Contents == {"a", "b"}
\* self._by_mentions_rate = None, self.last_join = None, no entry in
\* fast_joiners, no message handled yet.
NoRate == 0
NoJoin == -1
NoEntry == -1
NoEvent ==
    [author |-> 0, channel |-> 0, content |-> "", gap |-> -1, recorded |-> -1,
     mentions |-> <<>>, threshold |-> 0, guild |-> TRUE]

\* A member: both join the guild as the run starts; user 1 made the account
\* a day before, user 2 a hundred days before.
Member(u) ==
    IF u = 1
    THEN [id |-> 1, created_at |-> -Day, joined_at |-> 0]
    ELSE [id |-> u, created_at |-> -100 * Day, joined_at |-> 0]

\* The SpamChecker as one value, as __init__ builds it.
Fresh ==
    [by_content |-> [k \in Channels \X Contents |-> NoBucket],
     by_user |-> [u \in Users |-> NoBucket],
     new_user |-> [c \in Channels |-> NoBucket],
     hit_and_run |-> [c \in Channels |-> NoBucket],
     by_mentions_map |-> [u \in Users |-> NoBucket],
     by_mentions_rate |-> NoRate,
     last_join |-> NoJoin,
     fast_joiners |-> [u \in Users |-> NoEntry]]

\* SpamChecker.__init__
SpamInit ==
    /\ stime = 0
    /\ by_content = [k \in Channels \X Contents |-> NoBucket]
    /\ by_user = [u \in Users |-> NoBucket]
    /\ new_user = [c \in Channels |-> NoBucket]
    /\ hit_and_run = [c \in Channels |-> NoBucket]
    /\ by_mentions_map = [u \in Users |-> NoBucket]
    /\ by_mentions_rate = NoRate
    /\ last_join = NoJoin
    /\ fast_joiners = [u \in Users |-> NoEntry]
    /\ spam = "none"
    /\ fast = FALSE
    /\ last = NoEvent
    /\ sent = 0
    /\ joins = 0
    /\ passes = 0
    /\ burst = <<>>
    /\ other_guild = Fresh
    /\ elsewhere = 0

\* The bot after start-up: Reminder.__init__, SpamChecker.__init__, and
\* nothing fed to a limiter.
Init == ReminderInit /\ LimiterIdle /\ SpamInit

\* ----------------------------------------------------- the `reminders` table
\* INSERT INTO reminders (event, extra, expires, created_at) ... RETURNING id
InsertRow(rows, id, when, now, author) ==
    rows \cup {[id |-> id, expires |-> when, created_at |-> now, author |-> author]}

\* call_timer: DELETE FROM reminders WHERE id=$1
DeleteRowOther(rows, id) == {r \in rows : r.id = id}

DeleteRow(rows, id) == {r \in rows : r.id # id}

\* reminder_delete: DELETE ... WHERE id=$1 AND event='reminder' AND extra #>> '{args, 0}'=$2
OwnedRows(rows, id, author) == {r \in rows : r.id = id /\ r.author = author}

\* reminder_clear: the rows WHERE event = 'reminder' AND extra #>> '{args,0}' = $1
AuthorRows(rows, author) == {r \in rows : r.author = author}

\* ------------------------------------------------------ dispatch_timers
SetTask(ts, t, rec) == [ts EXCEPT ![t] = rec]

\* wait_for_active_timers, first get_active_timer.  A row: the event is set
\* and the row is returned (the connection is released before the caller
\* resumes).  No row: the event is cleared, _current_timer is reset and the
\* task waits for the event.
Query1(t) ==
    /\ tasks[t].pc = "query1"
    /\ \E r \in ActiveTimers(reminders, clock, HorizonDays) :
          IF r # NoTimer
          THEN /\ have_data' = TRUE
               /\ tasks' = SetTask(tasks, t, [pc |-> "release", timer |-> r, wake |-> 0])
               /\ UNCHANGED current_timer
          ELSE /\ have_data' = FALSE
               /\ current_timer' = NoTimer
               /\ tasks' = SetTask(tasks, t, [pc |-> "wait", timer |-> NoTimer, wake |-> 0])
    /\ UNCHANGED <<clock, reminders, nextId, task, shortTasks, stopped, errors,
                   timers, fired, cancelled>>
    /\ reply' = NoReply
    /\ UNCHANGED modVars

\* await self._have_data.wait() returns once the event is set.
Wakeup(t) ==
    /\ tasks[t].pc = "wait"
    /\ have_data
    /\ tasks' = SetTask(tasks, t, [pc |-> "query2", timer |-> NoTimer, wake |-> 0])
    /\ UNCHANGED <<clock, reminders, nextId, have_data, current_timer, task,
                   shortTasks, stopped, errors, timers, fired, cancelled>>
    /\ reply' = NoReply
    /\ UNCHANGED modVars

\* wait_for_active_timers, second get_active_timer: its result is returned
\* as it is, a row or None.
Query2(t) ==
    /\ tasks[t].pc = "query2"
    /\ \E r \in ActiveTimers(reminders, clock, HorizonDays) :
          tasks' = SetTask(tasks, t, [pc |-> "release", timer |-> r, wake |-> 0])
    /\ UNCHANGED <<clock, reminders, nextId, have_data, current_timer, task,
                   shortTasks, stopped, errors, timers, fired, cancelled>>
    /\ reply' = NoReply
    /\ UNCHANGED modVars

\* to_sleep = (timer.expires - now).total_seconds()
ToSleepNegated(expires, now) == now - expires

ToSleep(expires, now) == expires - now

\* dispatch_timers after wait_for_active_timers returned:
\*   timer = self._current_timer = <result>; now = utcnow()
\*   if timer.expires >= now: await asyncio.sleep(to_sleep)
\*   await self.call_timer(timer)
\* With a result of None, timer.expires raises AttributeError, which no
\* except clause of dispatch_timers catches: the task ends with it.
Assign(t) ==
    /\ tasks[t].pc = "release"
    /\ current_timer' = tasks[t].timer
    /\ tasks' =
          IF tasks[t].timer = NoTimer
          THEN Collect(SetTask(tasks, t, [NoTask EXCEPT !.pc = "failed"]), task)
          ELSE IF tasks[t].timer.expires >= clock
               THEN SetTask(tasks, t, [tasks[t] EXCEPT
                        !.pc = "sleep",
                        !.wake = clock + ToSleep(tasks[t].timer.expires, clock)])
               ELSE SetTask(tasks, t, [tasks[t] EXCEPT !.pc = "delete"])
    /\ UNCHANGED <<clock, reminders, nextId, have_data, task, shortTasks, stopped,
                   errors, timers, fired, cancelled>>
    /\ reply' = NoReply
    /\ UNCHANGED modVars

\* asyncio.sleep(to_sleep) returns.
Wake(t) ==
    /\ tasks[t].pc = "sleep"
    /\ clock >= tasks[t].wake
    /\ tasks' = SetTask(tasks, t, [tasks[t] EXCEPT !.pc = "delete"])
    /\ UNCHANGED <<clock, reminders, nextId, have_data, current_timer, task,
                   shortTasks, stopped, errors, timers, fired, cancelled>>
    /\ reply' = NoReply
    /\ UNCHANGED modVars

\* call_timer: await self.bot.pool.execute(DELETE ..., timer.id)
Delete(t) ==
    /\ tasks[t].pc = "delete"
    /\ reminders' = DeleteRow(reminders, tasks[t].timer.id)
    /\ tasks' = SetTask(tasks, t, [tasks[t] EXCEPT !.pc = "dispatch"])
    /\ UNCHANGED <<clock, nextId, have_data, current_timer, task, shortTasks,
                   stopped, errors, timers, fired, cancelled>>
    /\ reply' = NoReply
    /\ UNCHANGED modVars

\* self.bot.dispatch(event_name, timer) is a plain call: it starts the
\* listener on_reminder_timer_complete (a coroutine) without awaiting it, so
\* whether the listener later raises (threw) or not, call_timer returns and
\* the loop goes back to the top.
AfterDispatchPropagates(threw) ==
    IF threw THEN [NoTask EXCEPT !.pc = "failed"] ELSE NewTask

AfterDispatch(threw) == NewTask

\* call_timer: self.bot.dispatch(f'{timer.event}_timer_complete', timer), and
\* back to the top of the loop.
Dispatch(t) ==
    /\ tasks[t].pc = "dispatch"
    /\ \E threw \in BOOLEAN :
          /\ fired' = Append(fired, [key |-> KeyOfId(tasks[t].timer.id), at |-> clock,
                                     seen |-> Len(timers), threw |-> threw])
          /\ tasks' = SetTask(tasks, t, AfterDispatch(threw))
    /\ UNCHANGED <<clock, reminders, nextId, have_data, current_timer, task,
                   shortTasks, stopped, errors, timers, cancelled>>
    /\ reply' = NoReply
    /\ UNCHANGED modVars

\* except (OSError, discord.ConnectionClosed, asyncpg.PostgresConnectionError)
Caught(kind) == kind = "conn"

ErrorKinds == {"conn", "fatal"}

\* The ids of the rows the loop's query sees now.
PendingIds == {r.id : r \in VisibleRows(reminders, clock, HorizonDays)}

\* A storage call of the loop raises.  A caught error runs the handler
\* (self._task.cancel(); self._task = create_task(...)) and the task returns;
\* any other exception ends the task.
LoopError(t, kind) ==
    /\ tasks[t].pc \in {"query1", "query2", "delete"}
    /\ Len(errors) < MaxErrors
    /\ errors' = Append(errors, [kind |-> kind, pending |-> PendingIds])
    /\ IF Caught(kind)
       THEN LET ended == SetTask(tasks, t, [NoTask EXCEPT !.pc = "done"])
            IN  /\ CanRestart(ended, task)
                /\ tasks' = RestartTasks(ended, task).tasks
                /\ task' = RestartTasks(ended, task).task
       ELSE /\ tasks' = Collect(SetTask(tasks, t, [NoTask EXCEPT !.pc = "failed"]), task)
            /\ UNCHANGED task
    /\ UNCHANGED <<clock, reminders, nextId, have_data, current_timer, shortTasks,
                   stopped, timers, fired, cancelled>>
    /\ reply' = NoReply
    /\ UNCHANGED modVars

\* short_timer_optimization: asyncio.sleep(seconds) returns and the event is
\* dispatched.
ShortFire(s) ==
    /\ s \in shortTasks
    /\ clock >= s.wake
    /\ shortTasks' = shortTasks \ {s}
    /\ fired' = Append(fired, [key |-> s.key, at |-> clock, seen |-> Len(timers),
                               threw |-> FALSE])
    /\ UNCHANGED <<clock, reminders, nextId, have_data, current_timer, task, tasks,
                   stopped, errors, timers, cancelled>>
    /\ reply' = NoReply
    /\ UNCHANGED modVars

\* ------------------------------------------------------------ create_timer
\* `if delta <= 120`: the timer is not stored.
IsShortStrict(delta) == delta < ShortThreshold

IsShort(delta) == delta <= ShortThreshold

\* `if delta <= (86400 * 40)`: the event is set.
Signalled(delta) == delta <= Day * HorizonDays

\* `if self._current_timer and when < self._current_timer.expires`
PreemptsLater(cur, when) == cur # NoTimer /\ when > cur.expires

Preempts(cur, when) == cur # NoTimer /\ when < cur.expires

\* The timer the loop is sleeping on (the state WAITING), NoTimer if it is
\* not sleeping.  History of create_timer: what the call found.
Waited ==
    IF Alive(tasks, task) /\ tasks[task].pc = "sleep" THEN tasks[task].timer ELSE NoTimer

\* create_timer(when, 'reminder', author, ..., created_at=now) with
\* when = now + delta, run lag seconds after now.
create_timer(delta, lag, author) ==
    LET now == clock - lag
        when == now + delta
    IN  /\ ~stopped
        /\ Len(timers) < MaxTimers
        /\ IF IsShort(delta)
           THEN /\ shortTasks' = shortTasks \cup {[key |-> Len(timers) + 1, wake |-> clock + delta]}
                /\ timers' = Append(timers, [id |-> NoId, expires |-> when,
                                             created_at |-> now, author |-> author,
                                             called |-> clock, waited |-> Waited])
                /\ UNCHANGED <<reminders, nextId, have_data, task, tasks>>
           ELSE /\ reminders' = InsertRow(reminders, nextId, when, now, author)
                /\ nextId' = nextId + 1
                /\ timers' = Append(timers, [id |-> nextId, expires |-> when,
                                             created_at |-> now, author |-> author,
                                             called |-> clock, waited |-> Waited])
                /\ have_data' = IF Signalled(delta) THEN TRUE ELSE have_data
                /\ IF Preempts(current_timer, when)
                   THEN /\ CanRestart(tasks, task)
                        /\ tasks' = RestartTasks(tasks, task).tasks
                        /\ task' = RestartTasks(tasks, task).task
                   ELSE UNCHANGED <<task, tasks>>
                /\ UNCHANGED shortTasks
        /\ UNCHANGED <<clock, current_timer, stopped, errors, fired, cancelled>>

\* FriendlyTimeResult.ensure_constraints: `if self.dt < now`
InPastNever(dt, now) == FALSE

InPast(dt, now) == dt < now

\* The command `remind <when> ...`, run lag seconds after the message was
\* created: UserFriendlyTime.convert computes when.dt from
\* now = ctx.message.created_at and raises BadArgument for a time in the
\* past, and the command body is not run; else _remind calls create_timer
\* and answers.
remind(delta, lag, author) ==
    LET now == clock - lag
        dt == now + delta
    IN  IF InPast(dt, now)
        THEN /\ ~stopped
             /\ reply' = "This time is in the past."
             /\ UNCHANGED modVars
             /\ UNCHANGED <<clock, reminders, nextId, have_data, current_timer, task,
                            tasks, shortTasks, stopped, errors, timers, fired, cancelled>>
        ELSE /\ create_timer(delta, lag, author)
             /\ reply' = "Alright"
             /\ UNCHANGED modVars

\* `if status == 'DELETE 0'`: the DELETE of reminder_delete removed a row.
DeletedAlways(rows, id, author) == TRUE

Deleted(rows, id, author) == OwnedRows(rows, id, author) # {}

\* The timers reminder_delete(id) cancels: the one whose row it deletes; and,
\* for the id of a timer that was never stored (None), the author's short
\* timers that have not fired, none of which the command can reach.
Requested(id, author) ==
    {k \in 1..Len(timers) : /\ timers[k].id = id
                            /\ timers[k].author = author
                            /\ k \notin FiredKeys
                            /\ \/ id = NoId
                               \/ \E r \in reminders : r.id = id}

\* reminder_delete(ctx, id): the owned row is deleted; with no row deleted
\* ('DELETE 0') the command returns; else the task is restarted when the
\* current timer has this id.
reminder_delete(id, author) ==
    /\ ~stopped
    /\ cancelled' = cancelled \cup Requested(id, author)
    /\ reminders' = reminders \ OwnedRows(reminders, id, author)
    /\ IF Deleted(reminders, id, author)
       THEN /\ reply' = "Successfully deleted reminder."
            /\ IF current_timer # NoTimer /\ current_timer.id = id
               THEN /\ CanRestart(tasks, task)
                    /\ tasks' = RestartTasks(tasks, task).tasks
                    /\ task' = RestartTasks(tasks, task).task
               ELSE UNCHANGED <<task, tasks>>
       ELSE /\ reply' = "Could not delete any reminders with that ID."
            /\ UNCHANGED <<task, tasks>>
    /\ UNCHANGED <<clock, nextId, have_data, current_timer, shortTasks, stopped,
                   errors, timers, fired>>
    /\ UNCHANGED modVars

\* reminder_clear(ctx), confirmed: with at least one row of the author, all
\* of them are deleted, and the task is restarted when the current timer is
\* the author's.
reminder_clear(author) ==
    /\ ~stopped
    /\ AuthorRows(reminders, author) # {}
    /\ cancelled' = cancelled \cup {KeyOfId(r.id) : r \in AuthorRows(reminders, author)}
    /\ reminders' = reminders \ AuthorRows(reminders, author)
    /\ IF current_timer # NoTimer /\ current_timer.author = author
       THEN /\ CanRestart(tasks, task)
            /\ tasks' = RestartTasks(tasks, task).tasks
            /\ task' = RestartTasks(tasks, task).task
       ELSE UNCHANGED <<task, tasks>>
    /\ UNCHANGED <<clock, nextId, have_data, current_timer, shortTasks, stopped,
                   errors, timers, fired>>
    /\ reply' = "Successfully deleted reminders."
    /\ UNCHANGED modVars

\* cog_unload: self._task.cancel()
cog_unload ==
    /\ ~stopped
    /\ stopped' = TRUE
    /\ tasks' = Cancel(tasks, task)
    /\ UNCHANGED <<clock, reminders, nextId, have_data, current_timer, task,
                   shortTasks, errors, timers, fired, cancelled>>
    /\ reply' = NoReply
    /\ UNCHANGED modVars

\* ------------------------------------------------------------------ clock
\* A task that can take a step now.
Runnable(t) ==
    \/ tasks[t].pc \in {"query1", "query2", "release", "delete", "dispatch"}
    \/ tasks[t].pc = "wait" /\ have_data
    \/ tasks[t].pc = "sleep" /\ clock >= tasks[t].wake

Busy == (\E t \in TaskIds : Runnable(t)) \/ (\E s \in shortTasks : clock >= s.wake)

\* The moments after now at which something can happen.
Moments ==
    {x \in {tasks[t].wake : t \in {u \in TaskIds : tasks[u].pc = "sleep"}}
           \cup {s.wake : s \in shortTasks}
           \cup {r.expires : r \in reminders} : x > clock}

\* Time passes while nothing is runnable, up to the next moment.
Tick ==
    /\ ~Busy
    /\ Moments # {}
    /\ clock' = Min(Moments)
    /\ UNCHANGED <<reminders, nextId, have_data, current_timer, task, tasks,
                   shortTasks, stopped, errors, timers, fired, cancelled>>
    /\ reply' = NoReply
    /\ UNCHANGED modVars

\* ------------------------------------------------------------------- Next
NextAuthors ==
    {a \in Authors : \A b \in Authors : b < a => \E k \in 1..Len(timers) : timers[k].author = b}

LoopStep(t) ==
    \/ Query1(t)
    \/ Wakeup(t)
    \/ Query2(t)
    \/ Assign(t)
    \/ Wake(t)
    \/ Delete(t)
    \/ Dispatch(t)

Next ==
    \/ \E t \in TaskIds : LoopStep(t)
    \/ \E t \in TaskIds, kind \in ErrorKinds : LoopError(t, kind)
    \/ \E s \in shortTasks : ShortFire(s)
    \/ \E delta \in Deltas \cup PastDeltas, lag \in Lags, author \in NextAuthors :
          remind(delta, lag, author)
    \/ \E id \in 0..nextId, author \in Authors : reminder_delete(id, author)
    \/ \E author \in Authors : reminder_clear(author)
    \/ cog_unload
    \/ Tick

Spec == Init /\ [][Next]_vars

\* The event loop runs every task that can run, and time passes: the loop
\* task, the short sleeps and the clock are scheduled fairly.  Commands and
\* storage errors may stop arriving.
FairSpec ==
    /\ Spec
    /\ WF_vars(\E t \in TaskIds : LoopStep(t))
    /\ WF_vars(\E s \in shortTasks : ShortFire(s))
    /\ WF_vars(Tick)

\* ------------------------------------------------------- process restart
\* Rows an earlier run of the bot left in the table, as (expires,
\* created_at): one that expired while the bot was down, one that expires
\* soon, one beyond the horizon of the loop's query.  The clock starts at 0.
LeftRows == {<<-100, -300>>, <<100, -50>>, <<HorizonDays * Day + 1, -10>>}

\* Reminder.__init__ run with a row already in the table.
InitAfterRestart ==
    /\ clock = 0
    /\ \E x \in LeftRows :
          /\ reminders = {[id |-> 1, expires |-> x[1], created_at |-> x[2], author |-> 1]}
          /\ timers = <<[id |-> 1, expires |-> x[1], created_at |-> x[2], author |-> 1,
                         called |-> x[2], waited |-> NoTimer]>>
    /\ nextId = 2
    /\ have_data = FALSE
    /\ current_timer = NoTimer
    /\ task = 1
    /\ tasks = [t \in TaskIds |-> IF t = 1 THEN NewTask ELSE NoTask]
    /\ shortTasks = {}
    /\ stopped = FALSE
    /\ errors = <<>>
    /\ fired = <<>>
    /\ cancelled = {}
    /\ reply = NoReply
    /\ LimiterIdle
    /\ SpamInit

RestartSpec ==
    /\ InitAfterRestart
    /\ [][Next]_vars
    /\ WF_vars(\E t \in TaskIds : LoopStep(t))
    /\ WF_vars(\E s \in shortTasks : ShortFire(s))
    /\ WF_vars(Tick)

\* ================================================================ limiters
\* SpamChecker.__init__ and by_mentions: the (rate, per) of each limiter.
ByContent == [rate |-> 15, per |-> 17]
ByUser == [rate |-> 10, per |-> 12]
NewUser == [rate |-> 30, per |-> 35]
HitAndRun == [rate |-> 10, per |-> 12]
ByMentions(mention_count) == [rate |-> mention_count * 2, per |-> 12]

\* config.mention_count of the guilds that have mention spam configured.
MentionCounts == {1, 3}

Limiters == {ByContent, ByUser, NewUser, HitAndRun} \cup {ByMentions(m) : m \in MentionCounts}

\* One update of a bucket at time `now` with `n` tokens: a bucket that does
\* not exist yet, or whose window is at least `per` seconds old, starts a
\* new window at `now` with no hits; the tokens are added; the update trips
\* when the hits exceed the rate.
UpdateAtRate(b, now, n, lim) ==
    LET base == IF b = NoBucket \/ now - b.windowStart >= lim.per
                THEN [hits |-> 0, windowStart |-> now]
                ELSE b
        nb == [base EXCEPT !.hits = @ + n]
    IN  [bucket |-> nb, tripped |-> nb.hits >= lim.rate]

UpdateStrictAge(b, now, n, lim) ==
    LET base == IF b = NoBucket \/ now - b.windowStart > lim.per
                THEN [hits |-> 0, windowStart |-> now]
                ELSE b
        nb == [base EXCEPT !.hits = @ + n]
    IN  [bucket |-> nb, tripped |-> nb.hits > lim.rate]

UpdateQuietReset(b, now, n, lim) ==
    LET reset == b = NoBucket \/ now - b.windowStart >= lim.per
        base == IF reset THEN [hits |-> 0, windowStart |-> now] ELSE b
        nb == [base EXCEPT !.hits = @ + n]
    IN  [bucket |-> nb, tripped |-> ~reset /\ nb.hits > lim.rate]

Update(b, now, n, lim) ==
    LET base == IF b = NoBucket \/ now - b.windowStart >= lim.per
                THEN [hits |-> 0, windowStart |-> now]
                ELSE b
        nb == [base EXCEPT !.hits = @ + n]
    IN  [bucket |-> nb, tripped |-> nb.hits > lim.rate]

\* k unit updates one after the other at the same time: the bucket they
\* leave and the result of the last of them.
RECURSIVE Units(_, _, _, _)
Units(b, now, k, lim) ==
    IF k = 1
    THEN Update(b, now, 1, lim)
    ELSE Update(Units(b, now, k - 1, lim).bucket, now, 1, lim)

\* The waits between two events of the limiter fed on its own.
Waits(lim) == {lim.per - 1, lim.per, lim.per + 1}

\* bucket.update_rate_limit(current): one event of the key.
Check ==
    LET r == Update(bucket, ltime, 1, limiter)
    IN  /\ bucket.hits < limiter.rate + MaxOver
        /\ bucket' = r.bucket
        /\ tripped' = r.tripped
        /\ tokens' = 1
        /\ phase' = CASE phase = "fresh" -> "first"
                       [] phase = "first" /\ ltime - first >= limiter.per -> "other"
                       [] OTHER -> phase
        /\ first' = IF phase = "fresh" THEN ltime ELSE first
        /\ count' = IF phase' = "other" THEN 0 ELSE count + 1
        /\ UNCHANGED <<limiter, ltime>>
        /\ UNCHANGED vars
        /\ UNCHANGED spamVars

\* bucket.update_rate_limit(current, tokens=k)
CheckWeighted(k) ==
    LET r == Update(bucket, ltime, k, limiter)
    IN  /\ bucket.hits < limiter.rate + MaxOver
        /\ bucket' = r.bucket
        /\ tripped' = r.tripped
        /\ tokens' = k
        /\ phase' = "other"
        /\ count' = 0
        /\ UNCHANGED <<limiter, ltime, first>>
        /\ UNCHANGED vars
        /\ UNCHANGED spamVars

\* d seconds pass before the next event of the key.
Wait(d) ==
    /\ ltime + d <= MaxWindows * (limiter.per + 1)
    /\ ltime' = ltime + d
    /\ phase' = CASE phase = "first" /\ count = limiter.rate /\ d >= limiter.per
                        /\ ltime - first < limiter.per -> "rested"
                   [] phase = "fresh" -> "fresh"
                   [] phase = "rested" -> "rested"
                   [] phase = "first" /\ ltime + d - first < limiter.per -> "first"
                   [] OTHER -> "other"
    /\ count' = IF phase' = phase THEN count ELSE 0
    /\ UNCHANGED <<limiter, bucket, first, tokens, tripped>>
    /\ UNCHANGED vars
    /\ UNCHANGED spamVars

LimiterInit ==
    /\ ReminderInit
    /\ limiter \in Limiters
    /\ bucket = NoBucket
    /\ ltime = 0
    /\ phase = "fresh"
    /\ first = 0
    /\ count = 0
    /\ tokens = 0
    /\ tripped = FALSE
    /\ SpamInit

LimiterNext ==
    \/ Check
    \/ \E k \in 2..MaxTokens : CheckWeighted(k)
    \/ \E d \in Waits(limiter) : Wait(d)

LimiterSpec == LimiterInit /\ [][LimiterNext]_<<vars, modVars>>

\* ============================================================ SpamChecker
\* The users a message mentions, as (id, bot).
Other(i) == [id |-> 10 + i, bot |-> FALSE]
MixedMentions ==
    <<[id |-> 1, bot |-> FALSE], [id |-> 2, bot |-> FALSE], Other(1), [id |-> 20, bot |-> TRUE]>>

MentionLists ==
    { <<>>,
      MixedMentions,
      <<Other(1), Other(2), Other(3), Other(4), Other(5), Other(6), Other(7)>> }

Messages ==
    [guild : {TRUE}, author : Users, channel : {1}, content : Contents,
     mentions : MentionLists]
    \cup {[guild |-> FALSE, author |-> 1, channel |-> 1, content |-> "a", mentions |-> <<>>]}

\* Guild messages in every channel.
MessagesAnywhere ==
    [guild : {TRUE}, author : Users, channel : Channels, content : Contents,
     mentions : MentionLists]

\* config.mention_count; 0 when the guild has none configured.
Configs == [mention_count : {0} \cup MentionCounts]

\* The seconds between two events of the guild.
Gaps == {FastJoinGap, FastJoinGap + 1, 12, FastJoinTTL - FastJoinGap}

\* The SpamChecker the variables hold now.
Checker ==
    [by_content |-> by_content,
     by_user |-> by_user,
     new_user |-> new_user,
     hit_and_run |-> hit_and_run,
     by_mentions_map |-> by_mentions_map,
     by_mentions_rate |-> by_mentions_rate,
     last_join |-> last_join,
     fast_joiners |-> fast_joiners]

\* ExpiringCache: an entry older than the time to live is dropped when the
\* cache is next looked at.
LiveForEver(cache, now) == cache

Live(cache, now) ==
    [u \in DOMAIN cache |->
        IF cache[u] # NoEntry /\ now > cache[u] + FastJoinTTL THEN NoEntry ELSE cache[u]]

\* is_new, with discord.utils.utcnow() = now
is_new(member, now) ==
    /\ member.created_at > now - NewCreatedDays * Day
    /\ member.joined_at # NoJoin
    /\ member.joined_at > now - NewJoinedDays * Day

\* is_mention_spam: sum(not m.bot and m.id != message.author.id ...)
mention_countAll(message) == Len(message.mentions)

mention_count(message) ==
    Cardinality({i \in 1..Len(message.mentions) :
                    /\ ~message.mentions[i].bot
                    /\ message.mentions[i].id # message.author})

\* is_spamming: the order in which the limiters are updated.
RuleOrderUserFirst == <<"by_user", "hit_and_run", "new_user", "by_content", "by_mentions">>

RuleOrder == <<"hit_and_run", "new_user", "by_user", "by_content", "by_mentions">>

Pos(rule) == CHOOSE i \in 1..Len(RuleOrder) : RuleOrder[i] = rule

\* by_mentions(config): the buckets and the rate of the mention limiter
\* once the mapping has been looked up.
by_mentions(sc, config) ==
    IF config.mention_count = 0
    THEN [map |-> sc.by_mentions_map, rate |-> sc.by_mentions_rate]
    ELSE IF sc.by_mentions_rate # config.mention_count * 2
    THEN [map |-> [u \in Users |-> NoBucket], rate |-> config.mention_count * 2]
    ELSE [map |-> sc.by_mentions_map, rate |-> sc.by_mentions_rate]

\* is_spamming: `if message.guild is None`
NoGuildNever(message) == FALSE

NoGuild(message) == ~message.guild

\* What each limiter does with the message when is_spamming reaches it: the
\* `if` that guards it, and the update of its bucket.
Applies(sc, rule, message, config, now) ==
    CASE rule = "hit_and_run" -> Live(sc.fast_joiners, now)[message.author] # NoEntry
      [] rule = "new_user" -> is_new(Member(message.author), now)
      [] rule = "by_mentions" -> config.mention_count # 0
      [] OTHER -> TRUE

Updated(sc, rule, message, config, now) ==
    CASE rule = "hit_and_run" -> Update(sc.hit_and_run[message.channel], now, 1, HitAndRun)
      [] rule = "new_user" -> Update(sc.new_user[message.channel], now, 1, NewUser)
      [] rule = "by_user" -> Update(sc.by_user[message.author], now, 1, ByUser)
      [] rule = "by_content" ->
            Update(sc.by_content[<<message.channel, message.content>>], now, 1, ByContent)
      [] rule = "by_mentions" ->
            Update(by_mentions(sc, config).map[message.author], now,
                   mention_count(message), ByMentions(config.mention_count))

Trips(sc, rule, message, config, now) ==
    Applies(sc, rule, message, config, now) /\ Updated(sc, rule, message, config, now).tripped

\* The place is_spamming returns from: the first limiter in order that
\* trips, "clean" when none does, "no_guild" for a message outside a guild.
Site(sc, message, config, now) ==
    LET hits == {i \in 1..Len(RuleOrder) : Trips(sc, RuleOrder[i], message, config, now)}
    IN  IF NoGuild(message) THEN "no_guild"
        ELSE IF hits = {} THEN "clean"
        ELSE RuleOrder[CHOOSE i \in hits : \A j \in hits : i <= j]

\* The limiter is reached when is_spamming returns from `site`, and its `if`
\* lets the bucket be updated.
ReachedAlways(sc, site, rule, message, config, now) ==
    Applies(sc, rule, message, config, now)

Reached(sc, site, rule, message, config, now) ==
    /\ site \in {"clean"} \cup {RuleOrder[i] : i \in Pos(rule)..Len(RuleOrder)}
    /\ Applies(sc, rule, message, config, now)

\* The SpamChecker after is_spamming(message, config) at `now`.
Spammed(sc, message, config, now) ==
    LET site == Site(sc, message, config, now)
        mapping == by_mentions(sc, config)
    IN  IF NoGuild(message) THEN sc
        ELSE
        [by_content |->
            IF Reached(sc, site, "by_content", message, config, now)
            THEN [sc.by_content EXCEPT ![<<message.channel, message.content>>] =
                      Updated(sc, "by_content", message, config, now).bucket]
            ELSE sc.by_content,
         by_user |->
            IF Reached(sc, site, "by_user", message, config, now)
            THEN [sc.by_user EXCEPT ![message.author] =
                      Updated(sc, "by_user", message, config, now).bucket]
            ELSE sc.by_user,
         new_user |->
            IF Reached(sc, site, "new_user", message, config, now)
            THEN [sc.new_user EXCEPT ![message.channel] =
                      Updated(sc, "new_user", message, config, now).bucket]
            ELSE sc.new_user,
         hit_and_run |->
            IF Reached(sc, site, "hit_and_run", message, config, now)
            THEN [sc.hit_and_run EXCEPT ![message.channel] =
                      Updated(sc, "hit_and_run", message, config, now).bucket]
            ELSE sc.hit_and_run,
         by_mentions_map |->
            IF Reached(sc, site, "by_mentions", message, config, now)
            THEN [mapping.map EXCEPT ![message.author] =
                      Updated(sc, "by_mentions", message, config, now).bucket]
            ELSE sc.by_mentions_map,
         by_mentions_rate |->
            IF Reached(sc, site, "by_mentions", message, config, now)
            THEN mapping.rate
            ELSE sc.by_mentions_rate,
         last_join |-> sc.last_join,
         fast_joiners |-> Live(sc.fast_joiners, now)]

\* is_fast_join: `(joined - self.last_join).total_seconds() <= 2.0`
is_fastStrict(joined, previous) == joined - previous < FastJoinGap

is_fast(joined, previous) == joined - previous <= FastJoinGap

\* What is_fast_join(member) returns for a member that joined at `joined`,
\* and the SpamChecker after it.
FastJoin(sc, joined) ==
    sc.last_join # NoJoin /\ is_fast(joined, sc.last_join)

Joined(sc, u, joined) ==
    [sc EXCEPT !.last_join = joined,
               !.fast_joiners = IF FastJoin(sc, joined) THEN [@ EXCEPT ![u] = joined] ELSE @]

SetChecker(sc) ==
    /\ by_content' = sc.by_content
    /\ by_user' = sc.by_user
    /\ new_user' = sc.new_user
    /\ hit_and_run' = sc.hit_and_run
    /\ by_mentions_map' = sc.by_mentions_map
    /\ by_mentions_rate' = sc.by_mentions_rate
    /\ last_join' = sc.last_join
    /\ fast_joiners' = sc.fast_joiners

\* A message without mentions in channel 1.
Plain(author) ==
    [guild |-> TRUE, author |-> author, channel |-> 1, content |-> "a", mentions |-> <<>>]

\* A message of a run's opening: its author, whom it mentions, and the
\* mention_count of the guild as it is handled.
Opening(author) == [author |-> author, mentions |-> <<>>, mention_count |-> 0]

\* The messages a run opens with, all at the first moment and, but for the
\* last kind, without mentions and with no mention spam configured: none;
\* as many messages of user 2, or of user 1, as by_user lets through; as
\* many of user 2 as by_user lets through, then user 1 up to the rate of
\* by_content; the rate of new_user from user 1; one message of user 2 that
\* mentions others in a guild with mention_count 3.
Bursts ==
    { <<>>,
      [i \in 1..ByUser.rate |-> Opening(2)],
      [i \in 1..HitAndRun.rate |-> Opening(1)],
      [i \in 1..ByContent.rate |-> IF i <= ByUser.rate THEN Opening(2) ELSE Opening(1)],
      [i \in 1..NewUser.rate |-> Opening(1)],
      <<[author |-> 2, mention_count |-> 3, mentions |-> MixedMentions]>> }

is_spamming(message, config) ==
    /\ IF burst # <<>>
       THEN /\ message = [Plain(Head(burst).author) EXCEPT !.mentions = Head(burst).mentions]
            /\ config.mention_count = Head(burst).mention_count
            /\ burst' = Tail(burst)
            /\ sent' = sent
       ELSE /\ sent + elsewhere < MaxMessages
            /\ sent' = sent + 1
            /\ burst' = burst
    /\ last' = [author |-> message.author, channel |-> message.channel,
                content |-> message.content, gap |-> -1,
                recorded |-> fast_joiners[message.author],
                mentions |-> message.mentions, threshold |-> config.mention_count,
                guild |-> message.guild]
    /\ spam' = Site(Checker, message, config, stime)
    /\ SetChecker(Spammed(Checker, message, config, stime))
    /\ UNCHANGED <<stime, fast, joins, passes, other_guild, elsewhere>>
    /\ UNCHANGED <<vars, limiterVars>>

\* check_raid for a message of the other guild: is_spamming of that guild's
\* SpamChecker.
is_spamming_shared(message, config) ==
    /\ burst = <<>>
    /\ sent + elsewhere < MaxMessages
    /\ elsewhere' = elsewhere + 1
    /\ SetChecker(Spammed(Checker, message, config, stime))
    /\ UNCHANGED <<stime, spam, fast, last, sent, joins, passes, burst, other_guild>>
    /\ UNCHANGED <<vars, limiterVars>>

is_spamming_elsewhere(message, config) ==
    /\ burst = <<>>
    /\ sent + elsewhere < MaxMessages
    /\ elsewhere' = elsewhere + 1
    /\ other_guild' = Spammed(other_guild, message, config, stime)
    /\ UNCHANGED <<stime, by_content, by_user, new_user, hit_and_run, by_mentions_map,
                   by_mentions_rate, last_join, fast_joiners, spam, fast, last, sent, joins,
                   passes, burst>>
    /\ UNCHANGED <<vars, limiterVars>>

\* is_fast_join(member), for a member that joins now.
is_fast_join(u) ==
    /\ burst = <<>> \/ spam = "none"
    /\ joins < MaxJoins
    /\ joins' = joins + 1
    /\ last' = [NoEvent EXCEPT !.author = u,
                          !.gap = IF last_join = NoJoin THEN -1 ELSE stime - last_join]
    /\ fast' = FastJoin(Checker, stime)
    /\ SetChecker(Joined(Checker, u, stime))
    /\ UNCHANGED <<stime, spam, sent, passes, burst, other_guild, elsewhere>>
    /\ UNCHANGED <<vars, limiterVars>>

\* Time passes between two events of the guild.
Pass(d) ==
    /\ burst = <<>> \/ spam = "none"
    /\ passes < MaxPasses
    /\ passes' = passes + 1
    /\ stime' = stime + d
    /\ UNCHANGED <<by_content, by_user, new_user, hit_and_run, by_mentions_map,
                   by_mentions_rate, last_join, fast_joiners, spam, fast, last, sent, joins,
                   burst, other_guild, elsewhere>>
    /\ UNCHANGED <<vars, limiterVars>>

\* SpamChecker.__init__, before a run that opens with a burst.
SpamStart ==
    /\ ReminderInit
    /\ LimiterIdle
    /\ stime = 0
    /\ by_content = Fresh.by_content
    /\ by_user = Fresh.by_user
    /\ new_user = Fresh.new_user
    /\ hit_and_run = Fresh.hit_and_run
    /\ by_mentions_map = Fresh.by_mentions_map
    /\ by_mentions_rate = Fresh.by_mentions_rate
    /\ last_join = Fresh.last_join
    /\ fast_joiners = Fresh.fast_joiners
    /\ spam = "none"
    /\ fast = FALSE
    /\ last = NoEvent
    /\ sent = 0
    /\ joins = 0
    /\ passes = 0
    /\ burst \in Bursts
    /\ other_guild = Fresh
    /\ elsewhere = 0

SpamNext ==
    \/ \E message \in Messages, config \in Configs : is_spamming(message, config)
    \/ \E u \in Users : is_fast_join(u)
    \/ \E d \in Gaps : Pass(d)

allVars == <<vars, modVars>>

SpamSpec == SpamStart /\ [][SpamNext]_allVars

\* Mod.check_raid for the messages of two guilds, in every channel, and
\* Mod.on_member_join for the joins of the first.
GuildsNext ==
    \/ \E message \in MessagesAnywhere, config \in Configs : is_spamming(message, config)
    \/ \E message \in MessagesAnywhere, config \in Configs :
          is_spamming_elsewhere(message, config)
    \/ \E u \in Users : is_fast_join(u)

GuildsSpec == SpamStart /\ [][GuildsNext]_allVars

\* ============================================================ properties
Keys == 1..Len(timers)
Stored(k) == timers[k].id # NoId
FireCount(k) == Cardinality({i \in 1..Len(fired) : fired[i].key = k})
ErrorKindsSeen == {errors[i].kind : i \in 1..Len(errors)}

\* Nothing can happen any more unless a new command arrives: no task is
\* runnable and no sleep or stored timer lies ahead of the clock.
Quiescent == ~Busy /\ Moments = {}

\* C1: every timer create_timer returned that is never cancelled is
\* eventually dispatched, for any expiresAt, when the cog is not unloaded,
\* storage raises no error and the loop, the short sleeps and the clock
\* keep moving.
C1_EveryTimerFires ==
    \A k \in 1..MaxTimers :
        [](k \in Keys => <>(k \in FiredKeys \cup cancelled \/ stopped \/ errors # <<>>))

\* C2: no timer is dispatched more than once, and the row of a stored timer
\* is out of the table when its event is dispatched.
C2_AtMostOnceAfterDelete ==
    /\ \A k \in Keys : FireCount(k) <= 1
    /\ \A t \in TaskIds : tasks[t].pc = "dispatch"
          => \A r \in reminders : r.id # tasks[t].timer.id
    /\ \A k \in Keys : (Stored(k) /\ k \in FiredKeys)
          => \A r \in reminders : r.id # timers[k].id

C2_Witness ==
    /\ \E k \in Keys : Stored(k) /\ k \in FiredKeys
    /\ \E k \in Keys : ~Stored(k) /\ k \in FiredKeys
    /\ "conn" \in ErrorKindsSeen

\* C3: a timer cancelled before it fires (its id given to reminder_delete, or
\* its row removed by reminder_clear) is never dispatched.
C3_CancelledNeverFires == \A k \in Keys : k \in cancelled => k \notin FiredKeys

\* C5: of two timers that are not cancelled and that both existed when the
\* first of them was dispatched, the one that expires earlier is dispatched
\* first.  Two dispatches at the same clock time count as in order unless
\* both come from the dispatch loop, which dispatches one after the other.
C5_FiresInExpiryOrder ==
    \A i, j \in 1..Len(fired) :
        (/\ \/ fired[i].at < fired[j].at
            \/ i < j /\ Stored(fired[i].key) /\ Stored(fired[j].key)
         /\ fired[j].key <= fired[i].seen
         /\ fired[i].key \notin cancelled
         /\ fired[j].key \notin cancelled)
        => timers[fired[i].key].expires <= timers[fired[j].key].expires

\* C6: no timer is dispatched at a clock time before its expires, on the
\* stored path and on the short path.
C6_NeverEarly ==
    \A i \in 1..Len(fired) : fired[i].at >= timers[fired[i].key].expires

C6_Witness ==
    /\ \E i \in 1..Len(fired) : /\ Stored(fired[i].key)
                                /\ fired[i].at = timers[fired[i].key].expires
    /\ \E i \in 1..Len(fired) : /\ ~Stored(fired[i].key)
                                /\ fired[i].at > timers[fired[i].key].expires

\* ---- create_timer steps
Created == Len(timers') = Len(timers) + 1
NewTimer == timers'[Len(timers')]
\* The call asks for a timer that expires before the one the loop sleeps on.
Earlier(k) == timers[k].waited # NoTimer /\ timers[k].expires < timers[k].waited.expires

\* C4, as the spec states it: a create_timer call whose timer expires before
\* the one the loop is sleeping on cancels that sleep and restarts the loop,
\* on the stored path and on the short path.
C4_PreemptsOnBothPaths ==
    [][(Created /\ Waited # NoTimer /\ NewTimer.expires < Waited.expires)
          => /\ tasks'[task'].pc = "query1"
             /\ AliveTasks(tasks') = {task'}]_vars

\* C4, amended: on the stored path the sleep is cancelled and the loop
\* restarted, and from then on the loop never sleeps past the new timer's
\* expires while its row is in the table; on the short path the loop is left
\* as it is and the timer is dispatched by its own task, (expires -
\* created_at) seconds after the call.
C4_PreemptsOnStoredPath ==
    /\ [][(Created /\ Waited # NoTimer /\ NewTimer.expires < Waited.expires)
            => IF NewTimer.id # NoId
               THEN /\ tasks'[task'].pc = "query1"
                    /\ AliveTasks(tasks') = {task'}
               ELSE /\ UNCHANGED <<tasks, task, current_timer, have_data, reminders>>
                    /\ \E s \in shortTasks' : s.key = Len(timers')]_vars
    /\ [](\A k \in Keys : Earlier(k) =>
            IF Stored(k)
            THEN \A t \in TaskIds :
                    (tasks[t].pc = "sleep" /\ \E r \in reminders : r.id = timers[k].id)
                        => tasks[t].wake <= timers[k].expires
            ELSE \A i \in 1..Len(fired) : fired[i].key = k =>
                    fired[i].at = timers[k].called + (timers[k].expires - timers[k].created_at))

\* A stored timer that preempted the sleep has been dispatched, at its own
\* expires, while the timer the loop had been sleeping on is still stored.
C4_Witness ==
    \E i \in 1..Len(fired) :
        LET k == fired[i].key
        IN  /\ Earlier(k)
            /\ Stored(k)
            /\ fired[i].at = timers[k].expires
            /\ timers[k].waited \in reminders

\* C7: create_timer with expires - created_at <= 120 inserts no row and
\* returns a timer without an id; with more than 120 it inserts exactly one
\* row, the timer's, and returns the timer with the id of that row.
C7_ShortTimersNotStored ==
    [][Created =>
         IF NewTimer.expires - NewTimer.created_at <= ShortThreshold
         THEN /\ reminders' = reminders
              /\ NewTimer.id = NoId
         ELSE /\ NewTimer.id # NoId
              /\ \A r \in reminders : r.id # NewTimer.id
              /\ reminders' = reminders \cup
                    {[id |-> NewTimer.id, expires |-> NewTimer.expires,
                      created_at |-> NewTimer.created_at, author |-> NewTimer.author]}]_vars

C7_Witness ==
    /\ \E k \in Keys : /\ timers[k].expires - timers[k].created_at = ShortThreshold
                       /\ ~Stored(k)
    /\ \E k \in Keys : /\ timers[k].expires - timers[k].created_at = ShortThreshold + 1
                       /\ \E r \in reminders : r.id = timers[k].id

\* C8: at most one dispatch_timers task is alive, it is the one _task refers
\* to, and a task that sleeps sleeps on _current_timer.
C8_OneTaskOneCurrent ==
    /\ Cardinality(AliveTasks(tasks)) <= 1
    /\ \A t \in AliveTasks(tasks) : t = task
    /\ \A t \in TaskIds : tasks[t].pc = "sleep" => tasks[t].timer = current_timer

\* A restart has happened: the task is back at the top of the loop while
\* _current_timer still holds a stored, undispatched timer.
C8_Witness ==
    /\ tasks[task].pc = "query1"
    /\ current_timer \in reminders
    /\ "conn" \in ErrorKindsSeen
    /\ \E k \in Keys : Earlier(k) /\ Stored(k)

\* ---- storage errors inside the loop
Raised(kind) == Len(errors') = Len(errors) + 1 /\ errors'[Len(errors')].kind = kind

\* The handler of a connectivity error: the task that met it ends and a new
\* one starts at the top of the loop, with the table as it was.
ConnErrorRestartsTask ==
    [][Raised("conn") => /\ tasks'[task'].pc = "query1"
                         /\ AliveTasks(tasks') = {task'}
                         /\ reminders' = reminders]_vars

\* C9: after a connectivity error inside the loop, the timers the loop's
\* query saw pending in the table at that moment are dispatched afterwards:
\* once nothing can happen any more, with the cog loaded and no other kind
\* of error raised, each of them has been dispatched or cancelled.
C9_PendingFiredAfterRestart ==
    (Quiescent /\ ~stopped /\ ErrorKindsSeen = {"conn"})
        => \A i \in 1..Len(errors) : \A id \in errors[i].pending :
              KeyOfId(id) \in FiredKeys \cup cancelled

\* C10: a storage error that is not a connectivity error, raised inside the
\* loop, still leaves a dispatch task running.
C10_FatalErrorRestarts ==
    [][Raised("fatal") => Alive(tasks', task')]_vars

C12_NoFireAfterStop == [][stopped => fired' = fired]_vars

\* After a restart, the row that was in the table is dispatched at most
\* once, and a row whose expires had passed before the restart is never
\* slept on.
RestartSafe ==
    /\ FireCount(1) <= 1
    /\ \A t \in TaskIds : (tasks[t].pc = "sleep" /\ tasks[t].timer.id = 1)
          => timers[1].expires >= 0

\* C13: a stored timer whose row is in the table when the loop starts is
\* dispatched exactly once by the new loop (unless it is cancelled, the cog
\* is unloaded or storage raises an error), and without a sleep when its
\* expires is already past.
C13_FiredOnceAfterRestart ==
    /\ []RestartSafe
    /\ <>(1 \in FiredKeys \cup cancelled \/ stopped \/ errors # <<>>)

C15_ThrowingCallbackIsolated ==
    /\ [][(Len(fired') = Len(fired) + 1 /\ fired'[Len(fired')].threw)
            => /\ AliveTasks(tasks') = {task'}
               /\ tasks'[task'].pc = "query1"
               /\ \A r \in reminders' : r.id # timers[fired'[Len(fired')].key].id]_vars
    /\ [](\A i \in 1..Len(fired) : fired[i].threw => FireCount(fired[i].key) = 1)

\* After a dispatch whose listener raised, the loop has gone on and
\* dispatched the next pending timer.
C15_Witness ==
    /\ Len(fired) = 2
    /\ fired[1].threw
    /\ Stored(fired[2].key)
    /\ fired[2].at > fired[1].at

\* C16: for every limiter of SpamChecker, while every event of a key lies in
\* the window its first event opened on a fresh bucket, an event trips
\* exactly when it is beyond the rate-th of them: the first N events do not
\* trip, even at one instant, and the (N+1)th does.
C16_TripsBeyondRate ==
    phase = "first" => (tripped <=> count > limiter.rate)

\* N events at one instant did not trip and the next one, still in the
\* window, did.
C16_Witness ==
    /\ phase = "first"
    /\ count = limiter.rate + 1
    /\ tripped
    /\ ltime > first
    /\ bucket.windowStart = first

\* C17: after N events of a key in one window and a wait of at least T
\* seconds, exactly T included, none of the next N events of the key trips.
C17_RestResetsWindow ==
    (phase = "rested" /\ count <= limiter.rate) => ~tripped

\* The wait was exactly T after N events at one instant, and N more events
\* have been fed.
C17_Witness ==
    /\ phase = "rested"
    /\ count = limiter.rate
    /\ bucket.windowStart = first + limiter.per
    /\ bucket.hits = limiter.rate

C19_FastJoinBeforeUser ==
    [][(spam' \notin {"no_guild", "none"} /\ (sent' # sent \/ burst' # burst)) =>
        LET m == [guild |-> TRUE, author |-> last'.author, channel |-> last'.channel,
                  content |-> last'.content, mentions |-> <<>>]
            c == [mention_count |-> 0]
            fastHit == /\ Live(fast_joiners, stime)[m.author] # NoEntry
                       /\ Update(hit_and_run[m.channel], stime, 1, HitAndRun).tripped
            newHit == /\ is_new(Member(m.author), stime)
                      /\ Update(new_user[m.channel], stime, 1, NewUser).tripped
            userHit == Update(by_user[m.author], stime, 1, ByUser).tripped
            contentHit ==
                Update(by_content[<<m.channel, m.content>>], stime, 1, ByContent).tripped
        IN  /\ fastHit => (spam' = "hit_and_run" /\ by_user' = by_user)
            /\ spam' = "hit_and_run" <=> fastHit
            /\ spam' = "new_user" <=> (~fastHit /\ newHit)
            /\ spam' = "by_user" <=> (~fastHit /\ ~newHit /\ userHit)
            /\ spam' = "by_content" <=> (~fastHit /\ ~newHit /\ ~userHit /\ contentHit)
      ]_allVars

\* A fast joiner's message tripped hit_and_run while the author's by_user
\* bucket, left as it was, would have tripped too.
C19_Witness ==
    /\ spam = "hit_and_run"
    /\ sent = 1
    /\ fast_joiners[last.author] # NoEntry
    /\ Update(by_user[last.author], stime, 1, ByUser).tripped

\* C20: is_fast_join returns true, and records the member in fast_joiners,
\* exactly when the member joined at most 2.0 seconds after the join seen
\* before; it sets last_join to the join on every call; the first join a
\* checker sees is not a fast join.
C20_FastJoinWithinTwoSeconds ==
    [][joins' = joins + 1 =>
        /\ last_join' = stime
        /\ fast' <=> (last_join # NoJoin /\ stime - last_join <= 2)
        /\ fast' => fast_joiners' = [fast_joiners EXCEPT ![last'.author] = stime]
        /\ ~fast' => fast_joiners' = fast_joiners
        /\ last_join = NoJoin => ~fast'
      ]_allVars

\* A member joined exactly 2 seconds after the one before and was recorded.
C20_Witness ==
    /\ fast
    /\ last.gap = 2
    /\ joins = 2
    /\ fast_joiners[last.author] = stime
    /\ last_join = stime

\* C21: a member recorded in fast_joiners is treated as a fast joiner, so
\* that the member's message updates hit_and_run, while less than 1800
\* seconds have passed since the record was made, and no longer once more
\* than 1800 seconds have passed, unless is_fast_join records the member
\* again.
C21_FastJoinerExpires ==
    [][(spam' \notin {"no_guild", "none"} /\ (sent' # sent \/ burst' # burst)) =>
        LET u == last'.author
            c == last'.channel
            recorded == fast_joiners[u]
        IN  /\ (recorded # NoEntry /\ stime - recorded < 1800) =>
                  /\ hit_and_run'[c] = Update(hit_and_run[c], stime, 1, HitAndRun).bucket
                  /\ fast_joiners'[u] = recorded
            /\ (recorded = NoEntry \/ stime - recorded > 1800) =>
                  /\ hit_and_run' = hit_and_run
                  /\ spam' # "hit_and_run"
                  /\ fast_joiners'[u] = NoEntry
      ]_allVars

\* A member was recorded, stayed silent for more than 1800 seconds, and
\* the message sent then was not handled as a fast joiner's.
C21_Witness ==
    /\ sent = 1
    /\ last.recorded # NoEntry
    /\ last.recorded + 1800 < stime
    /\ spam = "clean"
    /\ fast_joiners[last.author] = NoEntry
    /\ hit_and_run[last.channel] = NoBucket
    /\ burst = <<>>

\* C22: in a guild with mention_count m > 0 the mention limiter allows 2 * m
\* tokens in 12 seconds for each author and a message costs as many tokens
\* as it mentions users that are neither bots nor its author: a message
\* that reaches the limiter with no bucket of its author yet is flagged
\* exactly when that number exceeds 2 * m.
C22_MentionBurst ==
    [][(/\ sent' # sent \/ burst' # burst
        /\ spam' \in {"by_mentions", "clean"}
        /\ last'.threshold > 0
        /\ \/ by_mentions_rate # 2 * last'.threshold
           \/ by_mentions_map[last'.author] = NoBucket) =>
        LET counted == Cardinality({i \in 1..Len(last'.mentions) :
                                      /\ ~last'.mentions[i].bot
                                      /\ last'.mentions[i].id # last'.author})
        IN  /\ spam' = "by_mentions" <=> counted > 2 * last'.threshold
            /\ by_mentions_rate' = 2 * last'.threshold
            /\ by_mentions_map'[last'.author] = [hits |-> counted, windowStart |-> stime]
      ]_allVars

\* One message with 7 counted mentions in a guild with mention_count 3 was
\* flagged by the mention limiter.
C22_Witness ==
    /\ spam = "by_mentions"
    /\ last.threshold = 3
    /\ Len(last.mentions) = 7
    /\ by_mentions_map[last.author].hits = 7
    /\ by_mentions_rate = 6

\* The part of C23 that is_mention_spam and by_mentions decide on their
\* own: for a guild without mention_count the mention limiter is not looked
\* up, the message is not flagged by it, and no mapping is made.
MentionRuleOffWithoutThreshold ==
    [][(/\ sent' # sent \/ burst' # burst
        /\ spam' \notin {"no_guild", "none"}
        /\ last'.threshold = 0) =>
        /\ spam' # "by_mentions"
        /\ by_mentions_map' = by_mentions_map
        /\ by_mentions_rate' = by_mentions_rate
      ]_allVars

\* A message with mentions was handled for a guild without mention_count
\* before any mention limiter existed.
MentionRuleOffReached ==
    /\ sent = 1
    /\ last.threshold = 0
    /\ Len(last.mentions) = 7
    /\ spam = "clean"
    /\ by_mentions_rate = NoRate

\* C24: is_spamming answers False for a message outside a guild and leaves
\* every bucket, the mention limiter, fast_joiners and last_join as they
\* were.
C24_NoGuildNoEffect ==
    [][((sent' # sent \/ burst' # burst) /\ ~last'.guild) =>
        /\ spam' \in {"no_guild", "clean"}
        /\ UNCHANGED <<by_content, by_user, new_user, hit_and_run, by_mentions_map,
                       by_mentions_rate, fast_joiners, last_join>>
      ]_allVars

\* A message outside a guild came from an author whose by_user bucket was
\* full, and was not flagged.
C24_Witness ==
    /\ sent = 1
    /\ ~last.guild
    /\ spam = "no_guild"
    /\ Update(by_user[last.author], stime, 1, ByUser).tripped

\* C25: a message changes the buckets of a limiter only if the limiter's
\* condition holds (hit_and_run: the author is a fast joiner; new_user:
\* the account is less than 90 days old and joined less than 7 days ago;
\* mentions: mention_count > 0) and no limiter earlier in the order has
\* tripped; hit_and_run, new_user, by_user and by_content are changed
\* whenever that is so.  Once a limiter trips, those after it are left as
\* they were.
C25_ShortCircuit ==
    [][((sent' # sent \/ burst' # burst) /\ last'.guild) =>
        LET u == last'.author
            isFast == fast_joiners[u] # NoEntry /\ stime < fast_joiners[u] + 1800
            wasFast == fast_joiners[u] # NoEntry /\ stime <= fast_joiners[u] + 1800
            isNew == /\ stime - Member(u).created_at < 90 * 86400
                     /\ stime - Member(u).joined_at < 7 * 86400
        IN  /\ isFast => hit_and_run' # hit_and_run
            /\ hit_and_run' # hit_and_run => wasFast
            /\ new_user' # new_user <=> (isNew /\ spam' # "hit_and_run")
            /\ by_user' # by_user <=> spam' \notin {"hit_and_run", "new_user"}
            /\ by_content' # by_content <=>
                  spam' \notin {"hit_and_run", "new_user", "by_user"}
            /\ (by_mentions_map' # by_mentions_map \/ by_mentions_rate' # by_mentions_rate)
                  => (last'.threshold > 0 /\ spam' \in {"by_mentions", "clean"})
      ]_allVars

\* by_user tripped on a message with 7 mentions in a guild with
\* mention_count 3: by_content and the mention limiter were not touched.
C25_Witness ==
    /\ sent = 1
    /\ spam = "by_user"
    /\ last.threshold = 3
    /\ Len(last.mentions) = 7
    /\ by_mentions_rate = NoRate
    /\ by_content[<<last.channel, last.content>>] = NoBucket

\* What a guild message leaves alone in its own guild's SpamChecker, apart
\* from the mention limiter: the by_user bucket of every other author, the
\* new_user and hit_and_run buckets of every other channel, the by_content
\* bucket of every other (channel, content); and the SpamChecker of the
\* other guild.
OtherKeysKept ==
    /\ \A v \in Users \ {last'.author} : by_user'[v] = by_user[v]
    /\ \A d \in Channels \ {last'.channel} :
          /\ new_user'[d] = new_user[d]
          /\ hit_and_run'[d] = hit_and_run[d]
    /\ \A k \in (Channels \X Contents) \ {<<last'.channel, last'.content>>} :
          by_content'[k] = by_content[k]
    /\ other_guild' = other_guild

\* A message of the other guild leaves this guild's SpamChecker alone.
OtherGuildKept ==
    elsewhere' # elsewhere =>
        UNCHANGED <<by_content, by_user, new_user, hit_and_run, by_mentions_map,
                    by_mentions_rate, fast_joiners, last_join>>

\* C30, as stated: a message changes only the buckets under its own keys in
\* its own guild's SpamChecker, the mention bucket of every other author
\* included.
C30_OnlyOwnKeys ==
    [][/\ ((sent' # sent \/ burst' # burst) /\ last'.guild) =>
            /\ OtherKeysKept
            /\ \A v \in Users \ {last'.author} : by_mentions_map'[v] = by_mentions_map[v]
       /\ OtherGuildKept
      ]_allVars

\* C30, amended: the same, except that a message handled under a
\* mention_count other than the one the mention limiter was built for
\* replaces the limiter, which drops the mention bucket of every other
\* author of the guild.
C30_OnlyOwnKeysButMentionRebuild ==
    [][/\ ((sent' # sent \/ burst' # burst) /\ last'.guild) =>
            /\ OtherKeysKept
            /\ \A v \in Users \ {last'.author} :
                  by_mentions_map'[v] =
                      IF by_mentions_rate' = by_mentions_rate
                      THEN by_mentions_map[v]
                      ELSE NoBucket
            /\ by_mentions_rate' # by_mentions_rate =>
                  /\ last'.threshold > 0
                  /\ by_mentions_rate' = 2 * last'.threshold
       /\ OtherGuildKept
      ]_allVars

\* A message in channel 2 was handled while buckets under other keys were
\* in use; a message of the other guild was handled while this guild's
\* buckets were in use.
C30_OtherKeysInUse ==
    \/ /\ sent = 1
       /\ last.channel = 2
       /\ new_user[1].hits = NewUser.rate
       /\ by_content[<<1, "a">>].hits = ByUser.rate
       /\ new_user[2].hits = 1
    \/ /\ elsewhere = 1
       /\ other_guild.by_user[2].hits = 1
       /\ by_user[2].hits = ByUser.rate

\* A message handled under another mention_count dropped the mention
\* bucket of an author who did not write it.
C30_MentionRebuildReached ==
    /\ sent = 1
    /\ last.author = 1
    /\ by_mentions_rate = 2
    /\ by_mentions_map[2] = NoBucket
    /\ by_content[<<1, "a">>].hits = 1
    /\ last.channel = 2
    /\ last.threshold = 1


\* ---- cancelling the timer the loop is waiting on
\* The step cancels timer k, stored, while the loop sleeps on it.
CancelsWaited(k) ==
    /\ Waited # NoTimer
    /\ Waited.id = timers[k].id
    /\ k \notin cancelled
    /\ k \in cancelled'

\* Timer k is cancelled and out of the loop's reach: it has not been
\* dispatched, its row is gone and no task that has not ended holds it.
Gone(k) ==
    /\ k \in cancelled
    /\ Stored(k)
    /\ k \notin FiredKeys
    /\ \A r \in reminders : r.id # timers[k].id
    /\ \A t \in AliveTasks(tasks) : tasks[t].timer.id # timers[k].id

\* The restart itself: cancelling the timer the loop sleeps on ends the
\* sleeping task and starts a new one at the top of the loop, and the
\* cancelled timer is out of the loop's reach from then on and is never
\* dispatched.
CancelOfWaitedRestarts ==
    [][\A k \in Keys :
          /\ CancelsWaited(k) => /\ tasks'[task'].pc = "query1"
                                 /\ AliveTasks(tasks') = {task'}
                                 /\ Gone(k)'
          /\ Gone(k) => Gone(k)'
      ]_vars

CancelOfWaitedReached == \E k \in Keys : Gone(k) /\ clock > timers[k].expires

\* The loop has been restarted by the cancellation of the timer it waited
\* on and has not yet chosen what to wait on next: _current_timer is still
\* the cancelled timer.
RestartedByCancel ==
    /\ current_timer # NoTimer
    /\ KeyOfId(current_timer.id) \in cancelled
    /\ Alive(tasks, task)
    /\ tasks[task].pc \in {"query1", "release"}

\* C26: after the timer the loop waits on has been cancelled, the restarted
\* loop next sleeps on the earliest timer pending in the table within the
\* horizon, and goes idle only when there is none.
C26_CancelRestartsOnEarliest ==
    [][RestartedByCancel =>
          /\ tasks'[task].pc = "sleep" =>
                 tasks'[task].timer \in ActiveTimers(reminders, clock, HorizonDays) \ {NoTimer}
          /\ tasks'[task].pc = "wait" => VisibleRows(reminders, clock, HorizonDays) = {}
      ]_vars

\* ---- what the loop sleeps on
\* C27: while the dispatch loop sleeps on a timer, no row of the table within
\* the horizon of its query expires before that timer: a create_timer call
\* made while the loop holds the row it fetched and has not yet assigned
\* _current_timer does not leave the loop sleeping on the later timer.
C27_SleepsOnEarliest ==
    (Alive(tasks, task) /\ tasks[task].pc = "sleep")
        => \A r \in VisibleRows(reminders, clock, HorizonDays) :
              r.expires >= tasks[task].timer.expires

\* ---- how the loop ends
\* C28: a dispatch_timers task ends only by being cancelled (cog_unload or a
\* restart that replaces it) or, the matter of C10, on a storage error: the
\* query made after the data-available signal returns a timer, so no task
\* ends on a timer of None.
C28_EndsOnlyByCancellation ==
    [][\A t \in TaskIds :
          (Alive(tasks, t) /\ ~Alive(tasks', t) /\ errors' = errors)
              => tasks'[t].pc # "failed"
      ]_vars

\* ---- timers beyond the horizon
\* Timer k, stored with expires more than 40 days after created_at, has its
\* row in the table while the loop is idle: blocked in _have_data.wait()
\* with the event clear.
IdleWithFar(k) ==
    /\ k \in Keys
    /\ Stored(k)
    /\ ~Signalled(timers[k].expires - timers[k].created_at)
    /\ \E r \in reminders : r.id = timers[k].id
    /\ Alive(tasks, task)
    /\ tasks[task].pc = "wait"
    /\ ~have_data

\* C29: a stored timer more than 40 days ahead, in the table while the loop
\* is idle, is dispatched in the end (unless it is cancelled, the cog is
\* unloaded or storage raises an error), with no other timer scheduled and
\* no restart, when the loop, the short sleeps and the clock keep moving.
C29_FarTimerFires ==
    \A k \in 1..MaxTimers :
        IdleWithFar(k) ~> (k \in FiredKeys \cup cancelled \/ stopped \/ errors # <<>>)

====
